---- MODULE Spec2Model ----
(***************************************************************************)
(* Inventory consistency of the point-of-sale / pharmacy backend:          *)
(* the pharmacy batch engine (core/serializers.py, core/views.py,          *)
(* core/models.py) and the retail stock engine, as request handlers run    *)
(* by concurrent workers against one relational database.                  *)
(*                                                                         *)
(* A worker runs one request at a time.  Every database statement of a     *)
(* handler is a step; statements of different workers interleave.  The     *)
(* database runs at READ COMMITTED: a statement sees what is committed,    *)
(* row locks are held until the transaction ends.                          *)
(***************************************************************************)
EXTENDS Integers, Sequences, FiniteSets, TLC

(***************************************************************************)
(* Bounds of the model                                                     *)
(***************************************************************************)
MaxDay == 1        \* the clock runs over days 0..MaxDay
MaxQty == 2        \* largest quantity in a request line or an initial row
MaxStock == 3      \* a receiving is not started beyond this batch quantity
MaxLines == 2      \* lines in one sale request
MaxSales == 1      \* no sale request starts once this many sales are committed
MaxLedger == 1     \* no ledger-writing request starts once the ledger holds this many rows

Workers == {"w1", "w2"}

None == "none"     \* a null id (batch_id omitted, no row)

(***************************************************************************)
(* Pharmacy catalogue.  Medicines and batches are entered through the      *)
(* admin site (core/admin.py:78-79); the receiving endpoint can only top   *)
(* up a batch that exists (see ReceivingGetOrCreate).                      *)
(***************************************************************************)
Medicines == {"m1", "m2"}
BatchIds == {"b1", "b2", "b3"}

\* Batch.medicine and Batch.batch_number never change after creation
BatchMedicine(b) == IF b = "b3" THEN "m2" ELSE "m1"
BatchNumber(b) == IF b = "b2" THEN 2 ELSE 1
BatchNumbers == {1, 2}
NewBatchNumber == 3

\* Batch.selling_price in cents
SellingPrice(b) == 100

VARIABLES
  today,        \* timezone.now().date(), a day number
  schedule,     \* Medicine.schedule of every medicine
  batch,        \* the batches table: id -> [expiry_date, quantity, is_blocked]
  movements,    \* the medicine_stock_movements table, in insertion order
  register,     \* the controlled_drug_register table, in insertion order
  psales,       \* the pharmacy_sales table with its items, in insertion order
  w,            \* per worker: the pharmacy request it is running, its objects
  stock,        \* products.stock_quantity of every product, in 1/1000 unit
  smovements,   \* the stock_movements table, in insertion order
  sales,        \* the sales table with its items, in insertion order
  payments,     \* the payments table, in insertion order
  lock,         \* the transaction that holds the row lock of each product
  catalog,      \* the products table: whether the row exists, and is_active
  po,           \* the purchase order: its status and its items
  rw            \* per worker: the retail request it is running, its objects

pvars == <<today, schedule, batch, movements, register, psales>>
pharmacy == <<today, schedule, batch, movements, register, psales, w>>
retail == <<stock, smovements, sales, payments, lock, catalog, po, rw>>
vars == <<today, schedule, batch, movements, register, psales, w,
          stock, smovements, sales, payments, lock, catalog, po, rw>>

NoLine == [medicine_id |-> None, batch_id |-> None, quantity |-> 0,
           prescription_verified |-> FALSE]
NoObj == [expiry_date |-> 0, quantity |-> 0, is_blocked |-> FALSE]
NoCalc == [subtotal |-> 0, discount_amount |-> 0, total |-> 0,
           amount_paid |-> 0, change_amount |-> 0]

Idle == [kind |-> "idle", pc |-> "idle", err |-> "", hp |-> FALSE,
         cur |-> NoLine, items |-> <<>>, b |-> None,
         obj |-> NoObj, qty |-> 0, is_blocked |-> FALSE, status |-> "",
         calc |-> NoCalc]

\* a request that has been answered: its kind and the error raised, if any
Done(kind, err) == [Idle EXCEPT !.kind = kind, !.pc = "done", !.err = err]

(***************************************************************************)
(* Batch and Medicine (models.py:418-626)                                  *)
(***************************************************************************)
\* Batch.is_expired, models.py:572-575
is_expired(o) == today >= o.expiry_date

\* a save that writes the object as it is
BatchSaveAsIs(o) == o

\* Batch.save, models.py:611-616: the whole row is written from the object,
\* an expired batch is blocked first
BatchSave(o) == IF is_expired(o) /\ ~o.is_blocked
                THEN [o EXCEPT !.is_blocked = TRUE]
                ELSE o

\* a gate that forgets the controlled schedule
requires_prescription_only(m) == schedule[m] = "prescription"

\* Medicine.requires_prescription, models.py:498-501
requires_prescription(m) == schedule[m] \in {"prescription", "controlled"}

\* Medicine.is_controlled_drug, models.py:503-506
is_controlled_drug(m) == schedule[m] = "controlled"

\* The columns of the batches table that a queryset filter can name
\* (models.py:524-567).  is_expired, is_near_expiry, days_to_expiry,
\* can_dispense and status are Python properties, not columns.
BatchColumns == {"medicine", "batch_number", "expiry_date", "quantity",
                 "initial_quantity", "purchase_price", "selling_price",
                 "is_blocked", "block_reason"}

\* Attributes of Batch declared with @property (models.py:572-609): reading
\* one yields its value, which is not callable.
BatchProperties == {"is_expired", "days_to_expiry", "is_near_expiry",
                    "can_dispense", "status"}

(***************************************************************************)
(* Money: Decimal amounts as integers in 1/10000 of a cent, so that a      *)
(* price in cents times a whole percentage (twice) is exact.               *)
(***************************************************************************)
Cent == 10000

\* Decimal.quantize(Decimal('0.01')) under the default context rounding,
\* ROUND_HALF_EVEN
Quantize(x) ==
  LET q == x \div Cent
      r == x % Cent
  IN  IF 2 * r > Cent \/ (2 * r = Cent /\ q % 2 = 1)
      THEN (q + 1) * Cent
      ELSE q * Cent

DiscountPercents == {0, 50}
AmountsPaid == {0, 125 * Cent, 2 * MaxQty * MaxLines * 100 * Cent}


(***************************************************************************)
(* PharmacySaleCreateSerializer.validate (serializers.py:1288-1373)        *)
(***************************************************************************)
\* the lines of a request: an existing medicine, a batch id or none
LineInputs == [medicine_id : Medicines,
               batch_id : BatchIds \cup {None},
               quantity : 1..MaxQty,
               prescription_verified : BOOLEAN]

\* the lookup keywords of the FEFO filter, serializers.py:1315-1320
FefoLookups == {"medicine", "is_expired", "is_blocked", "quantity"}

\* the rows the filter of serializers.py:1315-1320 asks for
FefoEligible(m, q) ==
  {b \in BatchIds : /\ BatchMedicine(b) = m
                    /\ ~is_expired(batch[b])
                    /\ ~batch[b].is_blocked
                    /\ batch[b].quantity >= q}

\* .order_by('expiry_date').first(): a row of least expiry_date; the query
\* names no second sort key, so among rows of equal expiry_date the database
\* may return any
FefoFirst(m, q) ==
  {b \in FefoEligible(m, q) :
     \A c \in FefoEligible(m, q) : batch[b].expiry_date <= batch[c].expiry_date}

\* Batch.objects.filter(...).order_by('expiry_date').first(),
\* serializers.py:1315-1325: the outcomes of the query.  filter() resolves
\* every keyword against the columns of the table and raises FieldError for
\* a keyword that is none.
FefoQuery(m, q) ==
  IF ~(FefoLookups \subseteq BatchColumns) THEN {"FieldError"}
  ELSE IF FefoEligible(m, q) = {} THEN {"NoAvailableBatch"}
  ELSE FefoFirst(m, q)

\* a selection that takes any sellable batch of the medicine and leaves the
\* quantity to later steps
BatchSelectAny(ln) ==
  IF ln.batch_id # None
  THEN IF ln.batch_id \in BatchIds /\ BatchMedicine(ln.batch_id) = ln.medicine_id
       THEN {ln.batch_id}
       ELSE {"BatchNotFound"}
  ELSE IF \E b \in BatchIds : BatchMedicine(b) = ln.medicine_id /\ ~batch[b].is_blocked
       THEN {b \in BatchIds : BatchMedicine(b) = ln.medicine_id /\ ~batch[b].is_blocked}
       ELSE {"NoAvailableBatch"}

\* serializers.py:1307-1327: the batch of a line, or the error raised
BatchSelect(ln) ==
  IF ln.batch_id # None
  THEN IF ln.batch_id \in BatchIds /\ BatchMedicine(ln.batch_id) = ln.medicine_id
       THEN {ln.batch_id}
       ELSE {"BatchNotFound"}
  ELSE FefoQuery(ln.medicine_id, ln.quantity)

\* serializers.py:1300-1334 for one line: "" or the error raised, given the
\* outcome sel of the batch selection
LineError(ln, hp, sel) ==
  IF requires_prescription(ln.medicine_id)
     /\ ~ln.prescription_verified /\ ~hp
  THEN "PrescriptionRequired"
  ELSE IF sel \notin BatchIds THEN sel
  ELSE IF batch[sel].quantity < ln.quantity THEN "InsufficientStock"
  ELSE ""

\* batch.is_near_expiry(30), serializers.py:1337: is_near_expiry is declared
\* with @property (models.py:583-586), so the attribute read yields a bool
\* and the call of it raises TypeError
NearExpiryCall == IF "is_near_expiry" \in BatchProperties THEN "TypeError" ELSE ""

\* serializers.py:1340-1349, one line's amounts
ItemSubtotal(it) == SellingPrice(it.batch) * it.quantity * Cent
ItemDiscount(it) == (ItemSubtotal(it) * it.discount_percent) \div 100

RECURSIVE SumSubtotal(_), SumDiscount(_)
SumSubtotal(items) ==
  IF items = <<>> THEN 0 ELSE ItemSubtotal(Head(items)) + SumSubtotal(Tail(items))
SumDiscount(items) ==
  IF items = <<>> THEN 0 ELSE ItemDiscount(Head(items)) + SumDiscount(Tail(items))

\* serializers.py:1355-1371
PharmacyCalculated(items, paid) ==
  LET total == Quantize(SumSubtotal(items) - SumDiscount(items))
  IN  [subtotal |-> Quantize(SumSubtotal(items)),
       discount_amount |-> Quantize(SumDiscount(items)),
       total |-> total,
       amount_paid |-> paid,
       change_amount |-> Quantize(paid - total)]

\* A request arrives: PharmacySaleCreateView.create, views.py:2538-2540
PharmacySaleBegin(wk) ==
  /\ w[wk].kind = "idle"
  /\ Len(movements) < MaxLedger
  /\ \E hp \in BOOLEAN :
       w' = [w EXCEPT ![wk] = [Idle EXCEPT !.kind = "psale", !.pc = "resolve",
                                           !.hp = hp]]
  /\ UNCHANGED pvars

  /\ UNCHANGED retail
\* validate, serializers.py:1295-1334: the medicine, the prescription gate,
\* the batch and the stock check of the next line
PharmacyValidateResolve(wk) ==
  /\ w[wk].kind = "psale" /\ w[wk].pc = "resolve"
  /\ \E ln \in LineInputs : \E sel \in BatchSelect(ln) :
       LET e == LineError(ln, w[wk].hp, sel) IN
       w' = [w EXCEPT ![wk] =
               IF e # ""
               THEN [@ EXCEPT !.pc = "respond", !.err = e, !.cur = ln]
               ELSE [@ EXCEPT !.pc = "warn", !.cur = ln, !.b = sel,
                              !.obj = batch[sel]]]
  /\ UNCHANGED pvars

  /\ UNCHANGED retail
\* validate, serializers.py:1336-1371: the near-expiry warning and the
\* amounts of the line; after the last line the totals and the payment check
PharmacyValidateWarn(wk) ==
  /\ w[wk].kind = "psale" /\ w[wk].pc = "warn"
  /\ IF NearExpiryCall # ""
     THEN w' = [w EXCEPT ![wk] = [@ EXCEPT !.pc = "respond", !.err = NearExpiryCall]]
     ELSE \E d \in DiscountPercents, paid \in AmountsPaid, more \in BOOLEAN :
            LET it == [medicine |-> w[wk].cur.medicine_id, batch |-> w[wk].b,
                       obj |-> w[wk].obj, quantity |-> w[wk].cur.quantity,
                       discount_percent |-> d,
                       prescription_verified |-> w[wk].cur.prescription_verified]
                items == Append(w[wk].items, it)
                calc == PharmacyCalculated(items, paid)
            IN  w' = [w EXCEPT ![wk] =
                        IF more /\ Len(items) < MaxLines
                        THEN [@ EXCEPT !.pc = "resolve", !.items = items]
                        ELSE IF paid < calc.total
                        THEN [@ EXCEPT !.pc = "respond", !.items = items,
                                       !.err = "AmountPaidTooLow"]
                        ELSE [@ EXCEPT !.pc = "respond", !.items = items,
                                       !.calc = calc]]
  /\ UNCHANGED pvars

  /\ UNCHANGED retail
(***************************************************************************)
(* PharmacySaleCreateSerializer.create (serializers.py:1375-1455)          *)
(***************************************************************************)
\* serializers.py:1422-1453 for one item, on the tables st: the object kept
\* from validate is decremented and saved, one movement row, one register
\* entry for a controlled drug
CreateItem(st, it, sid) ==
  LET o == [it.obj EXCEPT !.quantity = it.obj.quantity - it.quantity]
  IN  [batch |-> [st.batch EXCEPT ![it.batch] = BatchSave(o)],
       movements |-> Append(st.movements,
                       [batch |-> it.batch, movement_type |-> "sale",
                        quantity |-> -it.quantity,
                        previous_quantity |-> it.obj.quantity,
                        new_quantity |-> o.quantity, sale |-> sid]),
       register |-> IF is_controlled_drug(it.medicine)
                    THEN Append(st.register,
                           [batch |-> it.batch, transaction_type |-> "dispensing",
                            quantity |-> it.quantity, balance |-> o.quantity,
                            sale |-> sid])
                    ELSE st.register]

RECURSIVE CreateItems(_, _, _)
CreateItems(st, items, sid) ==
  IF items = <<>> THEN st
  ELSE CreateItems(CreateItem(st, Head(items), sid), Tail(items), sid)

\* the PharmacySale row with its PharmacySaleItem rows, serializers.py:1383-1420
PharmacySaleRow(r) ==
  [status |-> "completed", has_prescription |-> r.hp,
   items |-> [i \in 1..Len(r.items) |->
                [medicine |-> r.items[i].medicine, batch |-> r.items[i].batch,
                 quantity |-> r.items[i].quantity]],
   subtotal |-> r.calc.subtotal, discount_amount |-> r.calc.discount_amount,
   total |-> r.calc.total, amount_paid |-> r.calc.amount_paid,
   change_amount |-> r.calc.change_amount, void_reason |-> ""]

\* PharmacySaleCreateView.create, views.py:2538-2544: is_valid raises what
\* validate raised; otherwise save() runs create() in one transaction
PharmacySaleRespond(wk) ==
  /\ w[wk].kind = "psale" /\ w[wk].pc = "respond"
  /\ IF w[wk].err # ""
     THEN UNCHANGED <<batch, movements, register, psales>>
     ELSE LET sid == Len(psales) + 1
              st == CreateItems([batch |-> batch, movements |-> movements,
                                 register |-> register], w[wk].items, sid)
          IN  /\ psales' = Append(psales, PharmacySaleRow(w[wk]))
              /\ batch' = st.batch
              /\ movements' = st.movements
              /\ register' = st.register
  /\ w' = [w EXCEPT ![wk] = Done("psale", w[wk].err)]
  /\ UNCHANGED <<today, schedule>>

  /\ UNCHANGED retail

(***************************************************************************)
(* StockReceivingCreateSerializer.create (serializers.py:1118-1206), for a *)
(* request of one item.  validate_items (1106-1116) checks only that the   *)
(* keys are present: quantity_received is any integer of the request body  *)
(* and expiry_date arrives as text.                                        *)
(***************************************************************************)
RecvQuantities == -1..MaxQty

\* the row of unique_together (medicine, batch_number), or None
BatchByKey(m, bn) ==
  IF \E b \in BatchIds : BatchMedicine(b) = m /\ BatchNumber(b) = bn
  THEN CHOOSE b \in BatchIds : BatchMedicine(b) = m /\ BatchNumber(b) = bn
  ELSE None

\* serializers.py:1123-1153: the transaction begins, the StockReceiving row
\* is inserted, the batch is looked up.  When no row has the key,
\* get_or_create builds a Batch from the defaults and calls Batch.save,
\* whose is_expired compares a date with the text of the request
\* (models.py:575, 613): TypeError, and the transaction is rolled back.
ReceivingGetOrCreate(wk) ==
  /\ w[wk].kind = "idle"
  /\ Len(movements) < MaxLedger
  /\ \E m \in {"m1"}, bn \in BatchNumbers \cup {NewBatchNumber}, q \in RecvQuantities :
       LET b == BatchByKey(m, bn) IN
       IF b = None
       THEN w' = [w EXCEPT ![wk] = Done("recv", "TypeError")]
       ELSE /\ batch[b].quantity + q <= MaxStock
            /\ w' = [w EXCEPT ![wk] = [Idle EXCEPT !.kind = "recv", !.pc = "apply",
                                                  !.b = b, !.obj = batch[b],
                                                  !.qty = q]]
  /\ UNCHANGED pvars

  /\ UNCHANGED retail
\* serializers.py:1155-1204: the quantity is added to the object and the row
\* saved, one movement row, one register entry for a controlled drug; commit
ReceivingApply(wk) ==
  /\ w[wk].kind = "recv" /\ w[wk].pc = "apply"
  /\ LET b == w[wk].b
         q == w[wk].qty
         o == [w[wk].obj EXCEPT !.quantity = w[wk].obj.quantity + q]
     IN  /\ batch' = [batch EXCEPT ![b] = BatchSave(o)]
         /\ movements' = Append(movements,
                           [batch |-> b, movement_type |-> "receiving",
                            quantity |-> q,
                            previous_quantity |-> o.quantity - q,
                            new_quantity |-> o.quantity, sale |-> 0])
         /\ register' = IF is_controlled_drug(BatchMedicine(b))
                        THEN Append(register,
                               [batch |-> b, transaction_type |-> "receiving",
                                quantity |-> q, balance |-> o.quantity,
                                sale |-> 0])
                        ELSE register
  /\ w' = [w EXCEPT ![wk] = Done("recv", "")]
  /\ UNCHANGED <<today, schedule, psales>>

  /\ UNCHANGED retail
(***************************************************************************)
(* writeoff_expired_batch (views.py:2400-2447)                             *)
(***************************************************************************)
\* a check that refuses no write-off
WriteoffErrorNever(o) == ""

\* views.py:2409-2419: only an expired batch that holds stock is written off
WriteoffError(o) ==
  IF ~is_expired(o) THEN "NotExpired"
  ELSE IF o.quantity = 0 THEN "ZeroQuantity"
  ELSE ""

\* views.py:2404-2419: the batch is read and checked outside the transaction
WriteoffGet(wk) ==
  /\ w[wk].kind = "idle"
  /\ Len(movements) < MaxLedger
  /\ \E b \in {"b1", "b2"} :
       w' = [w EXCEPT ![wk] =
               IF WriteoffError(batch[b]) # ""
               THEN [Done("writeoff", WriteoffError(batch[b])) EXCEPT !.b = b]
               ELSE [Idle EXCEPT !.kind = "writeoff", !.pc = "apply",
                                 !.b = b, !.obj = batch[b]]]
  /\ UNCHANGED pvars
  /\ UNCHANGED retail

\* views.py:2423-2447: one movement row, the object saved with quantity 0;
\* after the commit the response is built with BatchDetailSerializer, whose
\* get_is_near_expiry (serializers.py:1012-1013) calls the property value
WriteoffApply(wk) ==
  /\ w[wk].kind = "writeoff" /\ w[wk].pc = "apply"
  /\ LET b == w[wk].b
         previous_quantity == w[wk].obj.quantity
     IN  /\ movements' = Append(movements,
                           [batch |-> b, movement_type |-> "expiry_writeoff",
                            quantity |-> -previous_quantity,
                            previous_quantity |-> previous_quantity,
                            new_quantity |-> 0, sale |-> 0])
         /\ batch' = [batch EXCEPT ![b] = BatchSave([w[wk].obj EXCEPT !.quantity = 0])]
  /\ w' = [w EXCEPT ![wk] = Done("writeoff", NearExpiryCall)]
  /\ UNCHANGED <<today, schedule, register, psales>>

  /\ UNCHANGED retail
(***************************************************************************)
(* block_batch, unblock_batch (views.py:2309-2352) and the update of       *)
(* BatchDetailView (views.py:2293-2306).  No transaction: every save is    *)
(* committed on its own.  The responses of block and unblock are built     *)
(* with BatchDetailSerializer, whose get_is_near_expiry raises after the   *)
(* save.                                                                   *)
(***************************************************************************)
\* views.py:2312-2321: the batch is read, blocked and saved
BlockBatch(wk) ==
  /\ w[wk].kind = "idle"
  /\ \E b \in {"b1", "b2"} :
       /\ batch' = [batch EXCEPT ![b] = BatchSave([batch[b] EXCEPT !.is_blocked = TRUE])]
       /\ w' = [w EXCEPT ![wk] = [Done("block", NearExpiryCall) EXCEPT !.b = b]]
  /\ UNCHANGED <<today, schedule, movements, register, psales>>
  /\ UNCHANGED retail

\* views.py:2333-2342: the batch is read, an expired batch is refused
UnblockGet(wk) ==
  /\ w[wk].kind = "idle"
  /\ \E b \in {"b1", "b2"} :
       w' = [w EXCEPT ![wk] =
               IF is_expired(batch[b])
               THEN [Done("unblock", "ExpiredBatch") EXCEPT !.b = b]
               ELSE [Idle EXCEPT !.kind = "unblock", !.pc = "apply",
                                 !.b = b, !.obj = batch[b]]]
  /\ UNCHANGED pvars
  /\ UNCHANGED retail

\* views.py:2344-2346: the object read before is unblocked and saved
UnblockApply(wk) ==
  /\ w[wk].kind = "unblock" /\ w[wk].pc = "apply"
  /\ batch' = [batch EXCEPT ![w[wk].b] =
                 BatchSave([w[wk].obj EXCEPT !.is_blocked = FALSE])]
  /\ w' = [w EXCEPT ![wk] = [Done("unblock", NearExpiryCall) EXCEPT !.b = w[wk].b]]
  /\ UNCHANGED <<today, schedule, movements, register, psales>>
  /\ UNCHANGED retail

\* PUT or PATCH with BatchUpdateSerializer (serializers.py:1042-1047): the
\* batch is read, is_blocked set to the value of the request, and saved
BatchUpdate(wk) ==
  /\ w[wk].kind = "idle"
  /\ \E b \in {"b1", "b2"}, is_blocked \in BOOLEAN :
       /\ batch' = [batch EXCEPT ![b] =
                      BatchSave([batch[b] EXCEPT !.is_blocked = is_blocked])]
       /\ w' = [w EXCEPT ![wk] = [Done("update", "") EXCEPT !.b = b,
                                                            !.is_blocked = is_blocked]]
  /\ UNCHANGED <<today, schedule, movements, register, psales>>
  /\ UNCHANGED retail

(***************************************************************************)
(* Batch.status (models.py:596-609), read by BatchListSerializer and       *)
(* BatchDetailSerializer (serializers.py:976, 995)                         *)
(***************************************************************************)
\* models.py:585, the default of the parameter days
NearExpiryDays == 90

\* models.py:578-582
days_to_expiry(o) == o.expiry_date - today

\* models.py:584-588, the value of the property
is_near_expiry(o) == 0 < days_to_expiry(o) /\ days_to_expiry(o) <= NearExpiryDays

\* models.py:596-609: self.is_near_expiry() calls the value of a property
status(o) ==
  IF is_expired(o) THEN "expired"
  ELSE IF o.is_blocked THEN "blocked"
  ELSE IF NearExpiryCall # "" THEN NearExpiryCall
  ELSE IF is_near_expiry(o) THEN "near_expiry"
  ELSE IF o.quantity = 0 THEN "depleted"
  ELSE "available"

\* a batch is serialized for the list or the detail response
ReadStatus(wk) ==
  /\ w[wk].kind = "idle"
  /\ \E b \in {"b1", "b2"} :
       w' = [w EXCEPT ![wk] = [Done("status", "") EXCEPT !.b = b,
                                                        !.status = status(batch[b])]]
  /\ UNCHANGED pvars
  /\ UNCHANGED retail

(***************************************************************************)
(* void_pharmacy_sale (views.py:2561-2632)                                 *)
(***************************************************************************)
\* the reason of a void or cancel request: absent or given
Reasons == {"", "reason"}

\* views.py:2589-2620 for one item, on the tables st: the batch of the item
\* is read, incremented and saved, one movement row, one register entry
\* for a controlled drug
VoidItem(st, it, sid) ==
  LET previous_quantity == st.batch[it.batch].quantity
      o == [st.batch[it.batch] EXCEPT !.quantity = @ + it.quantity]
  IN  [batch |-> [st.batch EXCEPT ![it.batch] = BatchSave(o)],
       movements |-> Append(st.movements,
                       [batch |-> it.batch, movement_type |-> "return",
                        quantity |-> it.quantity,
                        previous_quantity |-> previous_quantity,
                        new_quantity |-> o.quantity, sale |-> sid]),
       register |-> IF is_controlled_drug(it.medicine)
                    THEN Append(st.register,
                           [batch |-> it.batch, transaction_type |-> "adjustment",
                            quantity |-> it.quantity, balance |-> o.quantity,
                            sale |-> sid])
                    ELSE st.register]

RECURSIVE VoidItems(_, _, _)
VoidItems(st, items, sid) ==
  IF items = <<>> THEN st
  ELSE VoidItems(VoidItem(st, Head(items), sid), Tail(items), sid)

\* the sale is looked up by the key of the URL; a missing sale, a voided
\* sale and a request without reason are refused; otherwise every item is
\* reversed and the sale saved as voided, in one transaction
VoidPharmacySale(wk) ==
  /\ w[wk].kind = "idle"
  /\ \E pk \in 1..MaxSales, void_reason \in Reasons :
       IF pk > Len(psales)
       THEN /\ w' = [w EXCEPT ![wk] = Done("void", "NotFound")]
            /\ UNCHANGED <<batch, movements, register, psales>>
       ELSE IF psales[pk].status = "voided"
       THEN /\ w' = [w EXCEPT ![wk] = Done("void", "AlreadyVoided")]
            /\ UNCHANGED <<batch, movements, register, psales>>
       ELSE IF void_reason = ""
       THEN /\ w' = [w EXCEPT ![wk] = Done("void", "ReasonRequired")]
            /\ UNCHANGED <<batch, movements, register, psales>>
       ELSE LET st == VoidItems([batch |-> batch, movements |-> movements,
                                 register |-> register], psales[pk].items, pk)
            IN  /\ batch' = st.batch
                /\ movements' = st.movements
                /\ register' = st.register
                /\ psales' = [psales EXCEPT ![pk].status = "voided",
                                            ![pk].void_reason = void_reason]
                /\ w' = [w EXCEPT ![wk] = Done("void", "")]
  /\ UNCHANGED <<today, schedule>>
  /\ UNCHANGED retail

(***************************************************************************)
(* The environment                                                         *)
(***************************************************************************)
\* a day passes
Tick ==
  /\ today < MaxDay
  /\ today' = today + 1
  /\ UNCHANGED <<schedule, batch, movements, register, psales, w>>
  /\ UNCHANGED retail

\* the response is delivered and the worker takes the next request
Finish(wk) ==
  /\ w[wk].pc = "done"
  /\ w' = [w EXCEPT ![wk] = Idle]
  /\ UNCHANGED pvars

  /\ UNCHANGED retail
\* Batches as the admin form saves them: quantity >= 0 (models.py:536-540),
\* not expired on the day they are entered, not blocked.  The second
\* medicine is a prescription-only one with one batch.
InitBatches ==
  /\ today = 0
  /\ schedule \in {[m \in Medicines |-> IF m = "m2" THEN "prescription" ELSE s] :
                     s \in {"otc", "controlled"}}
  /\ \E e \in [{"b1", "b2"} -> 1..(MaxDay + 1)], q \in [{"b1", "b2"} -> 0..MaxQty] :
       batch = [b \in BatchIds |->
                  IF b = "b3"
                  THEN [expiry_date |-> MaxDay + 1, quantity |-> MaxQty,
                        is_blocked |-> FALSE]
                  ELSE [expiry_date |-> e[b], quantity |-> q[b],
                        is_blocked |-> FALSE]]
  /\ movements = <<>>
  /\ register = <<>>
  /\ psales = <<>>
  /\ w = [wk \in Workers |-> Idle]

NextBatches ==
  \/ Tick
  \/ \E wk \in Workers :
       \/ PharmacySaleBegin(wk)
       \/ PharmacyValidateResolve(wk)
       \/ PharmacyValidateWarn(wk)
       \/ PharmacySaleRespond(wk)
       \/ ReceivingGetOrCreate(wk)
       \/ ReceivingApply(wk)
       \/ WriteoffGet(wk)
       \/ WriteoffApply(wk)
       \/ VoidPharmacySale(wk)
       \/ Finish(wk)

(***************************************************************************)
(* Retail catalogue: a simple product, a parent (bulk) product and two     *)
(* child products cut from the parent (models.py:213-283).                 *)
(***************************************************************************)
Products == {"p1", "p2", "p3", "p4"}

\* Product.product_type and Product.parent_product
ProductType(p) == IF p = "p1" THEN "simple" ELSE IF p = "p2" THEN "parent" ELSE "child"
ParentOf(p) == IF p \in {"p3", "p4"} THEN "p2" ELSE None

\* Product.unit_quantity: the parent is a pack of 3 base units, the child 1
UnitQuantity(p) == IF p = "p2" THEN 3 ELSE 1

\* Product.price in cents and Product.tax_rate in percent
Price(p) == 125
TaxRate(p) == IF p = "p1" THEN 10 ELSE 0

\* stock_quantity has three decimal places (models.py:271-273)
Milli == 1000

\* the purchase order as PurchaseOrderCreateView stores it: pending, with
\* one item of the simple product (models.py:1214-1315)
PurchaseOrderRow ==
  [status |-> "pending", items |-> <<[product |-> "p1", quantity_ordered |-> 1]>>]

\* int() of a Decimal held as n/d: truncation toward zero.  It is what an
\* IntegerField does to the Decimal it is given (models.py:1168-1170)
Trunc(n, d) == IF n >= 0 THEN n \div d ELSE -((-n) \div d)

\* Product.available_child_stock, models.py:309-322, for child p when the
\* parent object holds ps
available_child_stock(p, ps) ==
  Trunc(ps * UnitQuantity(ParentOf(p)), UnitQuantity(p) * Milli)

\* Product.can_sell, models.py:383-390, on the stock s of the product read
\* (of its parent for a child)
can_sell(p, s, q) ==
  IF ProductType(p) = "child" THEN available_child_stock(p, s) >= q
  ELSE s >= q * Milli

\* update_parent_stock, models.py:363-368: the parent units that q child
\* units consume, as the numerator of a fraction over parent.unit_quantity
ParentUnitsConsumed(p, q) == q * UnitQuantity(p)

\* the way Decimal division by a unit quantity of 3 rounds its quotient at the
\* 28 digits of the context: exact (0), down (-1, the digits are 3s) or up
\* (1, the digits are 6s)
DivisionRounding(a, b) ==
  IF a % b = 0 THEN 0 ELSE IF 2 * (a % b) < b THEN -1 ELSE 1

\* update_parent_stock, models.py:370-376: the new parent stock held by the
\* parent object, as the numerator of a fraction over Milli * unit_quantity
NewParentStock(p, ps, q) ==
  LET n == ps * UnitQuantity(ParentOf(p)) - ParentUnitsConsumed(p, q) * Milli
  IN  IF n < 0 THEN 0 ELSE n

\* what a DecimalField of three decimal places stores of the Decimal n/(d *
\* Milli): the nearest thousandth (models.py:271-273)
DecimalSave(n, d) == (2 * n + d) \div (2 * d)

\* available_child_stock of child p read from the parent object that
\* update_parent_stock has just assigned: int() of the rounded Decimal
AvailableAfterUpdate(p, ps, q) ==
  LET n == NewParentStock(p, ps, q)
      d == Milli * UnitQuantity(p)
  IN  IF n > 0 /\ n % d = 0
           /\ DivisionRounding(ParentUnitsConsumed(p, q), UnitQuantity(ParentOf(p))) = 1
      THEN n \div d - 1
      ELSE n \div d

NoTx == [wset |-> {}, wval |-> [p \in Products |-> 0], moves |-> <<>>]

NoSaleCalc == [subtotal |-> 0, tax_amount |-> 0, discount_amount |-> 0,
               total |-> 0, amount_paid |-> 0, change_amount |-> 0]

RIdle == [kind |-> "idle", pc |-> "idle", err |-> "", items |-> <<>>,
          i |-> 0, p |-> None, q |-> 0, s |-> 0, sid |-> 0, reason |-> "",
          calc |-> NoSaleCalc, tx |-> NoTx]

\* a retail request that has been answered
RDone(kind, err) == [RIdle EXCEPT !.kind = kind, !.pc = "done", !.err = err]

\* what a statement of transaction t reads of product p at READ COMMITTED:
\* its own write, or else what is committed
ReadStock(t, p) == IF p \in t.wset THEN t.wval[p] ELSE stock[p]

\* an UPDATE of product p by transaction t
WriteStock(t, p, v) ==
  [t EXCEPT !.wset = @ \cup {p}, !.wval = [@ EXCEPT ![p] = v]]

\* a StockMovement row as stored: the three IntegerFields take int() of what
\* they are given, in 1/1000 unit (models.py:1168-1170)
MovementRow(p, type, qty, prev, new) ==
  [product |-> p, movement_type |-> type, quantity |-> Trunc(qty, Milli),
   previous_quantity |-> Trunc(prev, Milli), new_quantity |-> Trunc(new, Milli)]

\* the row locks a worker can take: free, or its own
CanLock(wk, p) == lock[p] \in {None, wk}

(***************************************************************************)
(* SaleCreateSerializer.validate (serializers.py:474-563)                  *)
(***************************************************************************)
\* the lines of a request, with discount percents of D
SaleLineInputs(D) ==
  [product_id : Products, quantity : 1..MaxQty, discount_percent : D]

\* serializers.py:526-535, one line's amounts
SaleItemSubtotal(it) == Price(it.product_id) * it.quantity * Cent
SaleItemDiscount(it) == (SaleItemSubtotal(it) * it.discount_percent) \div 100
SaleItemTax(it) ==
  ((SaleItemSubtotal(it) - SaleItemDiscount(it)) * TaxRate(it.product_id)) \div 100

\* serializers.py:537-539, the sums over the lines
RECURSIVE SaleSubtotal(_), SaleDiscount(_), SaleTax(_)
SaleSubtotal(items) ==
  IF items = <<>> THEN 0 ELSE SaleItemSubtotal(Head(items)) + SaleSubtotal(Tail(items))
SaleDiscount(items) ==
  IF items = <<>> THEN 0 ELSE SaleItemDiscount(Head(items)) + SaleDiscount(Tail(items))
SaleTax(items) ==
  IF items = <<>> THEN 0 ELSE SaleItemTax(Head(items)) + SaleTax(Tail(items))

\* serializers.py:541
SaleTotal(items) == SaleSubtotal(items) - SaleDiscount(items) + SaleTax(items)

\* a payment check that accepts every amount
PaidEnoughAlways(paid, total) == TRUE

\* serializers.py:549, the payment check
PaidEnough(paid, total) == paid >= total

\* serializers.py:544-561: the total is rounded, and each of the sums is
\* rounded on its own
SaleCalculated(items, paid) ==
  LET total == Quantize(SaleTotal(items))
  IN  [subtotal |-> Quantize(SaleSubtotal(items)),
       tax_amount |-> Quantize(SaleTax(items)),
       discount_amount |-> Quantize(SaleDiscount(items)),
       total |-> total,
       amount_paid |-> paid,
       change_amount |-> Quantize(paid - total)]

\* a request arrives: SaleCreateView.create, views.py:855-857
SaleBegin(wk) ==
  /\ rw[wk].kind = "idle"
  /\ Len(sales) < MaxSales
  /\ rw' = [rw EXCEPT ![wk] = [RIdle EXCEPT !.kind = "sale", !.pc = "validate"]]
  /\ UNCHANGED <<stock, smovements, sales, payments, lock>>
  /\ UNCHANGED <<catalog, po>>
  /\ UNCHANGED pharmacy

\* validate, serializers.py:491-561: the next line's product is read and its
\* stock checked; after the last line the total and the payment check.  The
\* request has at most n lines, with discount percents of D.
SaleValidateLine(wk, n, D) ==
  /\ rw[wk].kind = "sale" /\ rw[wk].pc = "validate"
  /\ \E ln \in SaleLineInputs(D), more \in BOOLEAN, paid \in AmountsPaid :
       LET p == ln.product_id
           s == IF ProductType(p) = "child" THEN stock[ParentOf(p)] ELSE stock[p]
           items == Append(rw[wk].items, ln)
           calc == SaleCalculated(items, paid)
       IN  rw' = [rw EXCEPT ![wk] =
                   IF catalog[p] = "deleted"
                   THEN RDone("sale", "ProductNotFound")
                   ELSE IF ~can_sell(p, s, ln.quantity)
                   THEN RDone("sale", "InsufficientStock")
                   ELSE IF more /\ Len(items) < n
                   THEN [@ EXCEPT !.items = items]
                   ELSE IF ~PaidEnough(paid, calc.total)
                   THEN RDone("sale", "AmountPaidTooLow")
                   ELSE [@ EXCEPT !.items = items, !.pc = "item", !.i = 1,
                                  !.calc = calc]]
  /\ UNCHANGED <<stock, smovements, sales, payments, lock>>
  /\ UNCHANGED <<catalog, po>>
  /\ UNCHANGED pharmacy

(***************************************************************************)
(* SaleCreateSerializer.create (serializers.py:565-672): one transaction.  *)
(* Its writes are held in tx until the commit; the Sale row and the        *)
(* SaleItem rows it inserts are the items of the request.                  *)
(***************************************************************************)
\* the tables after the writes of t are made durable
ApplyStock(t) == [p \in Products |-> IF p \in t.wset THEN t.wval[p] ELSE stock[p]]
ApplyMoves(t, sid) ==
  smovements \o [k \in 1..Len(t.moves) |->
                   [product |-> t.moves[k].product,
                    movement_type |-> t.moves[k].movement_type,
                    quantity |-> t.moves[k].quantity,
                    previous_quantity |-> t.moves[k].previous_quantity,
                    new_quantity |-> t.moves[k].new_quantity,
                    sale |-> sid]]

\* the writes that survive when the atomic block is left by an exception
\* written as if every statement had been committed on its own
RollbackNothing(t) == t

\* the writes that survive when the atomic block of serializers.py:571 is
\* left by an exception: none
Rollback(t) == NoTx

\* the locks of worker wk are released
Release(wk) == [p \in Products |-> IF lock[p] = wk THEN None ELSE lock[p]]

\* after item i: the next item, or the payment
AfterItem(rec) ==
  IF rec.i < Len(rec.items) THEN [rec EXCEPT !.pc = "item", !.i = @ + 1]
  ELSE [rec EXCEPT !.pc = "pay"]

\* serializers.py:589-602 and 634-663: the product row is locked and read,
\* the SaleItem inserted; a simple or parent product is decremented and
\* saved, with its movement row
SaleItem(wk) ==
  /\ rw[wk].kind = "sale" /\ rw[wk].pc = "item"
  /\ LET it == rw[wk].items[rw[wk].i]
         p == it.product_id
         s == ReadStock(rw[wk].tx, p)
         new == s - it.quantity * Milli
     IN  /\ CanLock(wk, p)
         /\ lock' = [lock EXCEPT ![p] = wk]
         /\ rw' = [rw EXCEPT ![wk] =
                     IF ProductType(p) = "child"
                     THEN [@ EXCEPT !.pc = "parent"]
                     ELSE AfterItem([@ EXCEPT !.tx =
                            [WriteStock(@, p, new) EXCEPT !.moves =
                               Append(@, MovementRow(p, "sale", -it.quantity * Milli,
                                                     s, new))]])]
  /\ UNCHANGED <<stock, smovements, sales, payments>>
  /\ UNCHANGED <<catalog, po>>
  /\ UNCHANGED pharmacy

\* serializers.py:607: product.parent_product is fetched, an ordinary read
SaleReadParent(wk) ==
  /\ rw[wk].kind = "sale" /\ rw[wk].pc = "parent"
  /\ rw' = [rw EXCEPT ![wk] =
              [@ EXCEPT !.pc = "update",
                        !.s = ReadStock(rw[wk].tx,
                                ParentOf(rw[wk].items[rw[wk].i].product_id))]]
  /\ UNCHANGED <<stock, smovements, sales, payments, lock>>
  /\ UNCHANGED <<catalog, po>>
  /\ UNCHANGED pharmacy

\* serializers.py:608-632: update_parent_stock saves the parent object read
\* before (the UPDATE takes the row lock), then the movement row of the
\* parent and the one of the child
SaleUpdateParent(wk) ==
  /\ rw[wk].kind = "sale" /\ rw[wk].pc = "update"
  /\ LET it == rw[wk].items[rw[wk].i]
         p == it.product_id
         parent == ParentOf(p)
         pu == UnitQuantity(parent)
         new_stock == NewParentStock(p, rw[wk].s, it.quantity)
         avail == AvailableAfterUpdate(p, rw[wk].s, it.quantity)
     IN  /\ CanLock(wk, parent)
         /\ lock' = [lock EXCEPT ![parent] = wk]
         /\ rw' = [rw EXCEPT ![wk] =
                     AfterItem([@ EXCEPT !.tx =
                       [WriteStock(@, parent, DecimalSave(new_stock, pu)) EXCEPT !.moves =
                          @ \o <<MovementRow(parent, "sale",
                                     -(ParentUnitsConsumed(p, it.quantity) \div pu) * Milli,
                                     rw[wk].s, new_stock \div pu),
                                 MovementRow(p, "sale", -it.quantity * Milli,
                                             (avail + it.quantity) * Milli,
                                             avail * Milli)>>]])]
  /\ UNCHANGED <<stock, smovements, sales, payments>>
  /\ UNCHANGED <<catalog, po>>
  /\ UNCHANGED pharmacy

\* the Sale row with its SaleItem rows, serializers.py:573-602
SaleRow(r) ==
  [status |-> "completed", items |-> r.items,
   subtotal |-> r.calc.subtotal, tax_amount |-> r.calc.tax_amount,
   discount_amount |-> r.calc.discount_amount, total |-> r.calc.total,
   amount_paid |-> r.calc.amount_paid, change_amount |-> r.calc.change_amount]

\* serializers.py:666-672: the Payment row is inserted and the atomic block
\* left: everything written becomes durable at once
SaleCommit(wk) ==
  /\ rw[wk].kind = "sale" /\ rw[wk].pc = "pay"
  /\ stock' = ApplyStock(rw[wk].tx)
  /\ smovements' = ApplyMoves(rw[wk].tx, Len(sales) + 1)
  /\ sales' = Append(sales, SaleRow(rw[wk]))
  /\ payments' = Append(payments, [sale |-> Len(sales) + 1])
  /\ lock' = Release(wk)
  /\ rw' = [rw EXCEPT ![wk] = RDone("sale", "")]
  /\ UNCHANGED <<catalog, po>>
  /\ UNCHANGED pharmacy

\* a statement of the atomic block raises (the database reports a deadlock
\* or a failed write): the block is left by the exception
SaleAbort(wk) ==
  /\ rw[wk].kind = "sale" /\ rw[wk].pc \in {"item", "parent", "update", "pay"}
  /\ stock' = ApplyStock(Rollback(rw[wk].tx))
  /\ smovements' = ApplyMoves(Rollback(rw[wk].tx), 0)
  /\ lock' = Release(wk)
  /\ rw' = [rw EXCEPT ![wk] = RDone("sale", "DatabaseError")]
  /\ UNCHANGED <<sales, payments>>
  /\ UNCHANGED <<catalog, po>>
  /\ UNCHANGED pharmacy

(***************************************************************************)
(* cancel_sale_view (views.py:947-980)                                     *)
(***************************************************************************)
\* a check that refuses no sale
NeverCancelled(sale) == FALSE

\* views.py:960: the sale has been cancelled before
AlreadyCancelled(sale) == sale.status = "cancelled"

\* views.py:952-964: the sale is read, a cancelled sale is refused; the body
\* of the request, with or without a reason, is not read
CancelGet(wk) ==
  /\ rw[wk].kind = "idle"
  /\ \E sid \in 1..Len(sales), reason \in Reasons :
       rw' = [rw EXCEPT ![wk] =
                IF AlreadyCancelled(sales[sid])
                THEN [RDone("cancel", "AlreadyCancelled") EXCEPT !.sid = sid]
                ELSE [RIdle EXCEPT !.kind = "cancel", !.pc = "cancel", !.sid = sid,
                                   !.reason = reason]]
  /\ UNCHANGED <<stock, smovements, sales, payments, lock>>
  /\ UNCHANGED <<catalog, po>>
  /\ UNCHANGED pharmacy

\* the stock after the quantities of the items are added to their products
RECURSIVE Restock(_, _)
Restock(st, items) ==
  IF items = <<>> THEN st
  ELSE Restock([st EXCEPT ![Head(items).product_id] = @ + Head(items).quantity * Milli],
               Tail(items))

\* views.py:966-975: every item's quantity is added to the stock of the
\* item's product and the product saved; the sale is saved as cancelled
CancelApply(wk) ==
  /\ rw[wk].kind = "cancel" /\ rw[wk].pc = "cancel"
  /\ LET items == sales[rw[wk].sid].items
     IN  /\ \A k \in 1..Len(items) : CanLock(wk, items[k].product_id)
         /\ stock' = Restock(stock, items)
  /\ sales' = [sales EXCEPT ![rw[wk].sid].status = "cancelled"]
  /\ rw' = [rw EXCEPT ![wk] = RDone("cancel", "")]
  /\ UNCHANGED <<smovements, payments, lock>>
  /\ UNCHANGED <<catalog, po>>
  /\ UNCHANGED pharmacy

(***************************************************************************)
(* StockAdjustmentView.post (views.py:1049-1104)                           *)
(***************************************************************************)
\* StockAdjustmentSerializer.validate, serializers.py:708-724: the product
\* is read and kept
AdjustValidate(wk) ==
  /\ rw[wk].kind = "idle"
  /\ Len(smovements) < MaxLedger
  /\ \E p \in Products, kind \in {"add", "remove", "set"}, q \in 0..MaxQty :
       rw' = [rw EXCEPT ![wk] =
                IF catalog[p] = "deleted"
                THEN RDone(kind, "ProductNotFound")
                ELSE IF kind = "remove" /\ stock[p] < q * Milli
                THEN RDone(kind, "CannotRemove")
                ELSE [RIdle EXCEPT !.kind = kind, !.pc = "adjust", !.p = p,
                                   !.q = q, !.s = stock[p]]]
  /\ UNCHANGED <<stock, smovements, sales, payments, lock>>
  /\ UNCHANGED <<catalog, po>>
  /\ UNCHANGED pharmacy

\* views.py:1060-1084: the new quantity is computed on the object kept from
\* validate, the object saved, one movement row inserted
AdjustPost(wk) ==
  /\ rw[wk].pc = "adjust"
  /\ LET p == rw[wk].p
         previous_quantity == rw[wk].s
         quantity == rw[wk].q * Milli
         new_quantity == IF rw[wk].kind = "add" THEN previous_quantity + quantity
                         ELSE IF rw[wk].kind = "remove" THEN previous_quantity - quantity
                         ELSE quantity
         movement_quantity == IF rw[wk].kind = "add" THEN quantity
                              ELSE IF rw[wk].kind = "remove" THEN -quantity
                              ELSE quantity - previous_quantity
     IN  /\ CanLock(wk, p)
         /\ stock' = [stock EXCEPT ![p] = new_quantity]
         /\ smovements' = ApplyMoves([NoTx EXCEPT !.moves =
                            <<MovementRow(p, "adjustment", movement_quantity,
                                          previous_quantity, new_quantity)>>], 0)
  /\ rw' = [rw EXCEPT ![wk] = RDone(rw[wk].kind, "")]
  /\ UNCHANGED <<sales, payments, lock>>
  /\ UNCHANGED <<catalog, po>>
  /\ UNCHANGED pharmacy

(***************************************************************************)
(* update_parent_stock (views.py:1935-1988)                                *)
(***************************************************************************)
\* the parent is read, stock_quantity set to the integer of the request and
\* the parent saved; a negative integer is refused
UpdateParentStock(wk) ==
  /\ rw[wk].kind = "idle"
  /\ \E p \in {q \in Products : ProductType(q) = "parent"}, new_stock \in -1..MaxQty :
       IF catalog[p] = "deleted"
       THEN /\ rw' = [rw EXCEPT ![wk] = RDone("parentstock", "ProductNotFound")]
            /\ UNCHANGED stock
       ELSE IF new_stock < 0
       THEN /\ rw' = [rw EXCEPT ![wk] = RDone("parentstock", "NegativeStock")]
            /\ UNCHANGED stock
       ELSE /\ CanLock(wk, p)
            /\ stock' = [stock EXCEPT ![p] = new_stock * Milli]
            /\ rw' = [rw EXCEPT ![wk] = RDone("parentstock", "")]
  /\ UNCHANGED <<smovements, sales, payments, lock>>
  /\ UNCHANGED <<catalog, po>>
  /\ UNCHANGED pharmacy

(***************************************************************************)
(* ProductDetailView.destroy (views.py:520-555) and force_delete_product   *)
(* (views.py:615-676)                                                      *)
(***************************************************************************)
\* the rows that refer to product pr: SaleItem.product, StockMovement.product
\* and PurchaseOrderItem.product are PROTECT (models.py:1053, 1164, 1289)
SaleItemsOf(pr) ==
  {<<k, i>> \in (1..Len(sales)) \X (1..MaxLines) :
     i <= Len(sales[k].items) /\ sales[k].items[i].product_id = pr}
StockMovementsOf(pr) == {k \in 1..Len(smovements) : smovements[k].product = pr}
PurchaseOrderItemsOf(pr) == {i \in 1..Len(po.items) : po.items[i].product = pr}

\* Product.child_products: parent_product is CASCADE (models.py:221)
child_products(pr) == {c \in Products : ParentOf(c) = pr /\ catalog[c] # "deleted"}

\* QuerySet.filter(product=pr).delete() on the three tables
DeleteSaleItems(pr) ==
  LET Other(it) == it.product_id # pr
  IN  [k \in 1..Len(sales) |-> [sales[k] EXCEPT !.items = SelectSeq(@, Other)]]
DeleteStockMovements(pr) ==
  LET Other(row) == row.product # pr
  IN  SelectSeq(smovements, Other)
DeletePurchaseOrderItems(pr) ==
  LET Other(it) == it.product # pr
  IN  [po EXCEPT !.items = SelectSeq(@, Other)]

\* views.py:525-555: a product with history is saved as inactive, a product
\* without is deleted
DestroyProduct(wk) ==
  /\ rw[wk].kind = "idle"
  /\ \E pr \in Products :
       LET has_sales == SaleItemsOf(pr) # {}
           has_stock_movements == StockMovementsOf(pr) # {}
           has_po_items == PurchaseOrderItemsOf(pr) # {}
           has_children == ProductType(pr) = "parent" /\ child_products(pr) # {}
       IN  IF catalog[pr] = "deleted"
           THEN /\ rw' = [rw EXCEPT ![wk] = RDone("destroy", "ProductNotFound")]
                /\ UNCHANGED catalog
           ELSE /\ CanLock(wk, pr)
                /\ catalog' = [catalog EXCEPT ![pr] =
                                 IF has_sales \/ has_stock_movements \/ has_po_items
                                    \/ has_children
                                 THEN "inactive" ELSE "deleted"]
                /\ rw' = [rw EXCEPT ![wk] = [RDone("destroy", "") EXCEPT !.p = pr]]
  /\ UNCHANGED <<stock, smovements, sales, payments, lock, po>>
  /\ UNCHANGED pharmacy

\* views.py:621-676: without confirm nothing is done; with it the rows that
\* refer to the product are deleted, then the product with its children.  A
\* child that is referred to itself raises ProtectedError and the atomic
\* block is rolled back.
ForceDeleteProduct(wk) ==
  /\ rw[wk].kind = "idle"
  /\ \E pr \in Products, confirm \in BOOLEAN :
       IF catalog[pr] = "deleted" \/ ~confirm
          \/ \E c \in child_products(pr) :
               \/ SaleItemsOf(c) # {}
               \/ StockMovementsOf(c) # {}
               \/ PurchaseOrderItemsOf(c) # {}
       THEN /\ rw' = [rw EXCEPT ![wk] =
                       [RDone("forcedelete",
                              IF catalog[pr] = "deleted" THEN "ProductNotFound"
                              ELSE IF ~confirm THEN "ConfirmationRequired"
                              ELSE "ProtectedError") EXCEPT !.p = pr]]
            /\ UNCHANGED <<smovements, sales, po, catalog>>
       ELSE /\ \A c \in {pr} \cup child_products(pr) : CanLock(wk, c)
            /\ sales' = DeleteSaleItems(pr)
            /\ smovements' = DeleteStockMovements(pr)
            /\ po' = DeletePurchaseOrderItems(pr)
            /\ catalog' = [c \in Products |->
                             IF c \in {pr} \cup child_products(pr)
                             THEN "deleted" ELSE catalog[c]]
            /\ rw' = [rw EXCEPT ![wk] = [RDone("forcedelete", "") EXCEPT !.p = pr]]
  /\ UNCHANGED <<stock, payments, lock>>
  /\ UNCHANGED pharmacy

(***************************************************************************)
(* receive_purchase_order (views.py:1145-1209) and cancel_purchase_order   *)
(* (views.py:1212-1236)                                                    *)
(***************************************************************************)
\* views.py:1149-1161: the order is read, a received order is refused
ReceiveGet(wk) ==
  /\ rw[wk].kind = "idle"
  /\ rw' = [rw EXCEPT ![wk] =
              IF po.status = "received"
              THEN RDone("receive", "AlreadyReceived")
              ELSE [RIdle EXCEPT !.kind = "receive", !.pc = "apply"]]
  /\ UNCHANGED <<stock, smovements, sales, payments, lock, catalog, po>>
  /\ UNCHANGED pharmacy

\* the stock after the ordered quantities of the items are added
RECURSIVE ReceiveStock(_, _)
ReceiveStock(st, items) ==
  IF items = <<>> THEN st
  ELSE ReceiveStock([st EXCEPT ![Head(items).product] =
                                 @ + Head(items).quantity_ordered * Milli],
                    Tail(items))

\* the 'purchase' rows of the items, the stock before the first being st
RECURSIVE ReceiveMoves(_, _)
ReceiveMoves(st, items) ==
  IF items = <<>> THEN <<>>
  ELSE LET it == Head(items)
           previous_quantity == st[it.product]
           new_quantity == previous_quantity + it.quantity_ordered * Milli
       IN  <<MovementRow(it.product, "purchase", it.quantity_ordered * Milli,
                         previous_quantity, new_quantity)>>
             \o ReceiveMoves([st EXCEPT ![it.product] = new_quantity], Tail(items))

\* views.py:1163-1204: every item's quantity_ordered is added to the stock
\* of its product, one 'purchase' row each, the order saved as received
ReceiveApply(wk) ==
  /\ rw[wk].kind = "receive" /\ rw[wk].pc = "apply"
  /\ \A k \in 1..Len(po.items) : CanLock(wk, po.items[k].product)
  /\ stock' = ReceiveStock(stock, po.items)
  /\ smovements' = ApplyMoves([NoTx EXCEPT !.moves = ReceiveMoves(stock, po.items)], 0)
  /\ po' = [po EXCEPT !.status = "received"]
  /\ rw' = [rw EXCEPT ![wk] = RDone("receive", "")]
  /\ UNCHANGED <<sales, payments, lock, catalog>>
  /\ UNCHANGED pharmacy

\* views.py:1216-1231: the order is read, a received order is refused, any
\* other is saved as cancelled
CancelPurchaseOrder(wk) ==
  /\ rw[wk].kind = "idle"
  /\ IF po.status = "received"
     THEN /\ rw' = [rw EXCEPT ![wk] = RDone("pocancel", "AlreadyReceived")]
          /\ UNCHANGED po
     ELSE /\ po' = [po EXCEPT !.status = "cancelled"]
          /\ rw' = [rw EXCEPT ![wk] = RDone("pocancel", "")]
  /\ UNCHANGED <<stock, smovements, sales, payments, lock, catalog>>
  /\ UNCHANGED pharmacy

\* the response is delivered and the worker takes the next request
RetailFinish(wk) ==
  /\ rw[wk].pc = "done"
  /\ rw' = [rw EXCEPT ![wk] = RIdle]
  /\ UNCHANGED <<stock, smovements, sales, payments, lock>>
  /\ UNCHANGED <<catalog, po>>
  /\ UNCHANGED pharmacy

\* Products as they are entered: whole units of the simple and the parent
\* product; the stored stock of a child product is 0
InitProducts ==
  /\ stock \in {[p \in Products |-> IF p = "p1" THEN a * Milli
                                    ELSE IF p = "p2" THEN b * Milli ELSE 0] :
                  a \in 0..MaxQty, b \in 0..MaxQty}
  /\ smovements = <<>>
  /\ sales = <<>>
  /\ payments = <<>>
  /\ lock = [p \in Products |-> None]
  /\ catalog = [p \in Products |-> "active"]
  /\ po = PurchaseOrderRow
  /\ rw = [wk \in Workers |-> RIdle]

\* concurrent workers that create sales
NextProducts ==
  \E wk \in Workers :
    \/ SaleBegin(wk)
    \/ SaleValidateLine(wk, MaxLines, {0})
    \/ SaleItem(wk)
    \/ SaleReadParent(wk)
    \/ SaleUpdateParent(wk)
    \/ SaleCommit(wk)
    \/ SaleAbort(wk)
    \/ RetailFinish(wk)

(***************************************************************************)
(* Specifications: the pharmacy engine with the retail tables at rest, and *)
(* the retail engine with the pharmacy tables at rest                      *)
(***************************************************************************)
\* the pharmacy tables at rest: no medicine is sold or received
BatchesAtRest ==
  /\ today = 0
  /\ schedule = [m \in Medicines |-> "otc"]
  /\ batch = [b \in BatchIds |->
               [expiry_date |-> MaxDay + 1, quantity |-> 0, is_blocked |-> FALSE]]
  /\ movements = <<>>
  /\ register = <<>>
  /\ psales = <<>>
  /\ w = [wk \in Workers |-> Idle]

\* the retail tables at rest: no product is sold or adjusted
ProductsAtRest ==
  /\ stock = [p \in Products |-> 0]
  /\ smovements = <<>>
  /\ sales = <<>>
  /\ payments = <<>>
  /\ lock = [p \in Products |-> None]
  /\ catalog = [p \in Products |-> "active"]
  /\ po = PurchaseOrderRow
  /\ rw = [wk \in Workers |-> RIdle]

InitPharmacy == InitBatches /\ ProductsAtRest
NextPharmacy == NextBatches
SpecPharmacy == InitPharmacy /\ [][NextPharmacy]_vars

\* one worker, with the maintenance of batches
NextBatch ==
  \/ Tick
  \/ PharmacySaleBegin("w1")
  \/ PharmacyValidateResolve("w1")
  \/ PharmacyValidateWarn("w1")
  \/ PharmacySaleRespond("w1")
  \/ ReceivingGetOrCreate("w1")
  \/ ReceivingApply("w1")
  \/ WriteoffGet("w1")
  \/ WriteoffApply("w1")
  \/ VoidPharmacySale("w1")
  \/ BlockBatch("w1")
  \/ UnblockGet("w1")
  \/ UnblockApply("w1")
  \/ BatchUpdate("w1")
  \/ Finish("w1")
SpecBatch == InitPharmacy /\ [][NextBatch]_vars

\* the expiry dates of the batches whose status is read
StatusExpiryDates == {0, 1, 2, NearExpiryDays, NearExpiryDays + 1, NearExpiryDays + 2}

\* batches as they can be stored on the first day: a batch blocks itself
\* only when it is saved, so a batch that expired after its last save is
\* stored unblocked
InitStatus ==
  /\ today = 0
  /\ schedule = [m \in Medicines |-> "otc"]
  /\ \E e \in [{"b1", "b2"} -> StatusExpiryDates], q \in [{"b1", "b2"} -> 0..MaxQty],
        k \in [{"b1", "b2"} -> BOOLEAN] :
       batch = [b \in BatchIds |->
                  IF b = "b3"
                  THEN [expiry_date |-> MaxDay + 1, quantity |-> MaxQty,
                        is_blocked |-> FALSE]
                  ELSE [expiry_date |-> e[b], quantity |-> q[b],
                        is_blocked |-> k[b]]]
  /\ movements = <<>>
  /\ register = <<>>
  /\ psales = <<>>
  /\ w = [wk \in Workers |-> Idle]
  /\ ProductsAtRest

NextStatus ==
  \/ Tick
  \/ ReadStatus("w1")
  \/ Finish("w1")
SpecStatus == InitStatus /\ [][NextStatus]_vars

InitRetail == InitProducts /\ BatchesAtRest
NextRetail == NextProducts
SpecRetail == InitRetail /\ [][NextRetail]_vars

\* one worker, sales of at most MaxLines lines
NextSale ==
  \/ SaleBegin("w1")
  \/ SaleValidateLine("w1", MaxLines, DiscountPercents)
  \/ SaleItem("w1")
  \/ SaleReadParent("w1")
  \/ SaleUpdateParent("w1")
  \/ SaleCommit("w1")
  \/ SaleAbort("w1")
  \/ CancelGet("w1")
  \/ CancelApply("w1")
  \/ AdjustValidate("w1")
  \/ AdjustPost("w1")
  \/ UpdateParentStock("w1")
  \/ RetailFinish("w1")
SpecSale == InitRetail /\ [][NextSale]_vars

\* one worker, sales of one line and the deletion of products
NextCatalog ==
  \/ SaleBegin("w1")
  \/ SaleValidateLine("w1", 1, {0})
  \/ SaleItem("w1")
  \/ SaleReadParent("w1")
  \/ SaleUpdateParent("w1")
  \/ SaleCommit("w1")
  \/ SaleAbort("w1")
  \/ DestroyProduct("w1")
  \/ ForceDeleteProduct("w1")
  \/ RetailFinish("w1")
SpecCatalog == InitRetail /\ [][NextCatalog]_vars

\* a worker that adjusts stock beside a worker that sells one line
NextAdjust ==
  \/ AdjustValidate("w1")
  \/ AdjustPost("w1")
  \/ RetailFinish("w1")
  \/ SaleBegin("w2")
  \/ SaleValidateLine("w2", 1, {0})
  \/ SaleItem("w2")
  \/ SaleReadParent("w2")
  \/ SaleUpdateParent("w2")
  \/ SaleCommit("w2")
  \/ SaleAbort("w2")
  \/ RetailFinish("w2")
SpecAdjust == InitRetail /\ [][NextAdjust]_vars

\* a worker that sells one line, and two workers that cancel
NextCancel ==
  \/ SaleBegin("w1")
  \/ SaleValidateLine("w1", 1, {0})
  \/ SaleItem("w1")
  \/ SaleReadParent("w1")
  \/ SaleUpdateParent("w1")
  \/ SaleCommit("w1")
  \/ SaleAbort("w1")
  \/ CancelGet("w1")
  \/ CancelApply("w1")
  \/ RetailFinish("w1")
  \/ CancelGet("w2")
  \/ CancelApply("w2")
  \/ RetailFinish("w2")
SpecCancel == InitRetail /\ [][NextCancel]_vars

\* two workers on the purchase order
NextPurchase ==
  \E wk \in Workers :
    \/ ReceiveGet(wk)
    \/ ReceiveApply(wk)
    \/ CancelPurchaseOrder(wk)
    \/ RetailFinish(wk)
SpecPurchase == InitRetail /\ [][NextPurchase]_vars

(***************************************************************************)
(* Properties of the pharmacy batch engine                                 *)
(***************************************************************************)
Tables == <<batch, movements, register, psales>>

\* worker wk takes the step of validate that resolves a line
ResolveStep(wk) ==
  /\ w[wk].kind = "psale" /\ w[wk].pc = "resolve"
  /\ w'[wk].pc # "resolve"

\* worker wk answers a pharmacy sale request that validate rejected
RejectStep(wk) ==
  /\ w[wk].kind = "psale" /\ w[wk].pc = "respond" /\ w[wk].err # ""
  /\ w'[wk].pc = "done"

\* a line whose medicine needs no prescription evidence, or has it
GatePassed(ln, hp) ==
  schedule[ln.medicine_id] = "otc" \/ ln.prescription_verified \/ hp

\* worker wk has a validated answer pending for a line that names batch b,
\* of the line's medicine, sellable, and asks for all that b holds
AsksAllOf(wk, b) ==
  /\ w[wk].kind = "psale" /\ w[wk].pc = "respond"
  /\ w[wk].cur.batch_id = b
  /\ BatchMedicine(b) = w[wk].cur.medicine_id
  /\ GatePassed(w[wk].cur, w[wk].hp)
  /\ today < batch[b].expiry_date /\ ~batch[b].is_blocked
  /\ w[wk].cur.quantity = batch[b].quantity

\* C1: when two concurrent pharmacy sales each ask for the N units that a
\* batch holds, every one of them is either accepted or rejected for
\* insufficient stock, and exactly one is accepted.
C1_ExactlyOneSaleCommits ==
  \A b \in BatchIds :
    (\A wk \in Workers : AsksAllOf(wk, b))
      => /\ \A wk \in Workers : w[wk].err \in {"", "InsufficientStock"}
         /\ Cardinality({wk \in Workers : w[wk].err = ""}) = 1

\* C6: the quantity of a batch is never negative.
C6_BatchQuantityNonNegative == \A b \in BatchIds : batch[b].quantity >= 0

\* the batches of medicine m that are not expired, not blocked and hold q
SpecEligible(m, q) ==
  {b \in BatchIds : /\ BatchMedicine(b) = m
                    /\ today < batch[b].expiry_date
                    /\ ~batch[b].is_blocked
                    /\ batch[b].quantity >= q}

\* earliest expiry_date first, ties broken by batch_number
SpecBefore(b, c) ==
  \/ batch[b].expiry_date < batch[c].expiry_date
  \/ /\ batch[b].expiry_date = batch[c].expiry_date
     /\ BatchNumber(b) <= BatchNumber(c)

\* C7: a line that gives no batch id and passes the prescription gate, for a
\* medicine with an eligible batch, is resolved to the eligible batch of
\* earliest expiry_date, ties broken by batch_number.
C7_FefoSelectsEarliest ==
  [][\A wk \in Workers :
       (/\ ResolveStep(wk)
        /\ w'[wk].cur.batch_id = None
        /\ GatePassed(w'[wk].cur, w[wk].hp)
        /\ SpecEligible(w'[wk].cur.medicine_id, w'[wk].cur.quantity) # {})
       => /\ w'[wk].pc = "warn"
          /\ w'[wk].b \in SpecEligible(w'[wk].cur.medicine_id, w'[wk].cur.quantity)
          /\ \A c \in SpecEligible(w'[wk].cur.medicine_id, w'[wk].cur.quantity) :
               SpecBefore(w'[wk].b, c)]_vars

\* the answers of a failed automatic batch selection
SelectionFailures == {"NoAvailableBatch", "FieldError"}

RECURSIVE SumQuantity(_)
SumQuantity(S) ==
  IF S = {} THEN 0
  ELSE LET b == CHOOSE x \in S : TRUE
       IN  batch[b].quantity + SumQuantity(S \ {b})

C10_PrescriptionGate ==
  [][\A wk \in Workers :
       /\ (/\ ResolveStep(wk)
           /\ schedule[w'[wk].cur.medicine_id] \in {"prescription", "controlled"}
           /\ ~w'[wk].cur.prescription_verified
           /\ ~w[wk].hp)
          => (w'[wk].pc = "respond" /\ w'[wk].err = "PrescriptionRequired")
       /\ RejectStep(wk) => UNCHANGED Tables]_vars

\* C10 witness: a line for a controlled medicine without prescription
\* evidence has been rejected with PrescriptionRequired
C10_Witness ==
  \E wk \in Workers :
    /\ w[wk].kind = "psale" /\ w[wk].pc = "respond"
    /\ w[wk].err = "PrescriptionRequired"
    /\ schedule[w[wk].cur.medicine_id] = "controlled"
    /\ ~w[wk].cur.prescription_verified /\ ~w[wk].hp

(***************************************************************************)
(* Properties of the retail stock engine                                   *)
(***************************************************************************)
RetailTables == <<stock, smovements, sales, payments>>

\* worker wk takes a step of a sale request
SaleStep(wk) == rw[wk].kind = "sale" /\ rw'[wk] # rw[wk]

\* worker wk commits a sale
CommitStep(wk) ==
  /\ rw[wk].kind = "sale" /\ rw[wk].pc = "pay"
  /\ rw'[wk].pc = "done" /\ rw'[wk].err = ""

\* the product whose stock a sale of product p is taken from
StockSubject(p) == IF ProductType(p) = "child" THEN ParentOf(p) ELSE p

\* the ledger rows that a step inserts
NewRows == (Len(smovements) + 1)..Len(smovements')

\* C2: a retail sale commits a line for a simple or parent product only if
\* the stock of the product, as it is under the row lock held at commit,
\* covers the line: of two concurrent sales that each ask for all N units of
\* the product, the second to take the lock is rejected.
C2_StockCheckedUnderLock ==
  [][\A wk \in Workers :
       CommitStep(wk) =>
         \A k \in 1..Len(rw[wk].items) :
           ProductType(rw[wk].items[k].product_id) \in {"simple", "parent"}
             => stock[rw[wk].items[k].product_id] >= rw[wk].items[k].quantity * Milli]_vars

\* C3: a step of a sale request that does not commit the sale leaves the
\* stock, the ledger, the sales and the payments as they are, whether the
\* request is being validated, is rejected or fails in the middle of its
\* writes; the step that commits makes the sale with its items, the stock
\* change and a ledger row of every item, and the payment durable together.
C3_SaleAllOrNothing ==
  [][\A wk \in Workers :
       SaleStep(wk) =>
         IF rw'[wk].pc = "done" /\ rw'[wk].err = ""
         THEN /\ Len(sales') = Len(sales) + 1
              /\ sales'[Len(sales')].items = rw[wk].items
              /\ sales'[Len(sales')].status = "completed"
              /\ payments' = Append(payments, [sale |-> Len(sales')])
              /\ \A k \in 1..Len(rw[wk].items) :
                   LET p == StockSubject(rw[wk].items[k].product_id)
                   IN  /\ stock'[p] < stock[p]
                       /\ \E j \in NewRows : /\ smovements'[j].product = p
                                             /\ smovements'[j].sale = Len(sales')
         ELSE UNCHANGED RetailTables]_vars

\* C3 witness: a sale failed in the middle of its writes and nothing of it
\* is in the tables
C3_Witness ==
  \E wk \in Workers :
    /\ rw[wk].kind = "sale" /\ rw[wk].pc = "done"
    /\ rw[wk].err = "DatabaseError"
    /\ sales = <<>> /\ smovements = <<>> /\ payments = <<>>

\* C4: every ledger row that is inserted has new_quantity equal to
\* previous_quantity + quantity, and the last row inserted for a simple or
\* parent product has the new_quantity that the product's stock then holds.
C4_LedgerRowArithmetic ==
  [][\A k \in NewRows :
       LET row == smovements'[k]
       IN  /\ row.new_quantity = row.previous_quantity + row.quantity
           /\ (/\ ProductType(row.product) # "child"
               /\ \A j \in NewRows : j > k => smovements'[j].product # row.product)
              => stock'[row.product] = row.new_quantity * Milli]_vars

\* C5: a step that changes the stock of a product inserts a ledger row for
\* that product.
C5_StockChangeWritesLedger ==
  [][\A p \in Products :
       stock'[p] # stock[p] => \E k \in NewRows : smovements'[k].product = p]_vars

\* the stock of parent product pp after the items of a sale, in the exact
\* arithmetic of the specification: n is the numerator of the stock over
\* Milli * unit_quantity of pp
RECURSIVE ExactParentStock(_, _, _)
ExactParentStock(n, items, pp) ==
  IF items = <<>> THEN n
  ELSE LET it == Head(items)
           p == it.product_id
           m == IF ParentOf(p) = pp
                THEN n - it.quantity * UnitQuantity(p) * Milli
                ELSE IF p = pp THEN n - it.quantity * UnitQuantity(pp) * Milli
                ELSE n
       IN  ExactParentStock(IF ParentOf(p) = pp /\ m < 0 THEN 0 ELSE m, Tail(items), pp)

\* C11: the step that commits a sale with q units of a child product leaves
\* the parent's stock_quantity lower by exactly q * child.unit_quantity /
\* parent.unit_quantity (not below 0), and leaves the child's own
\* stock_quantity as it was.
C11_ChildSaleConsumesParent ==
  [][\A wk \in Workers :
       CommitStep(wk) =>
         \A k \in 1..Len(rw[wk].items) :
           LET p == rw[wk].items[k].product_id
               pp == ParentOf(p)
           IN  ProductType(p) = "child"
                 => /\ stock'[pp] * UnitQuantity(pp)
                         = ExactParentStock(stock[pp] * UnitQuantity(pp), rw[wk].items, pp)
                    /\ stock'[p] = stock[p]]_vars

\* C12: the stored stock_quantity of every child product is 0 in every
\* reachable state, whatever sales, cancellations and adjustments are made.
C12_ChildStockPinned ==
  \A p \in Products : ProductType(p) = "child" => stock[p] = 0

\* C13: in every reachable state the available stock read from a child
\* product is floor(parent.stock_quantity * parent.unit_quantity /
\* child.unit_quantity) of the parent's stock as it is stored, it is not
\* negative, and can_sell(q) holds exactly when q is at most that value.
C13_AvailableChildStock ==
  \A p \in Products :
    ProductType(p) = "child" =>
      LET ps == stock[ParentOf(p)]
          available == available_child_stock(p, ps)
      IN  /\ available = (ps * UnitQuantity(ParentOf(p))) \div (UnitQuantity(p) * Milli)
          /\ available >= 0
          /\ \A q \in 1..MaxQty : can_sell(p, ps, q) <=> q <= available

\* what the items of a sale drew from the stock of product p, as the
\* numerator of a fraction over Milli * unit_quantity of p
RECURSIVE Drawn(_, _)
Drawn(items, p) ==
  IF items = <<>> THEN 0
  ELSE (IF StockSubject(Head(items).product_id) = p
        THEN Head(items).quantity * UnitQuantity(Head(items).product_id) * Milli
        ELSE 0) + Drawn(Tail(items), p)

\* a step that cancels the completed sale sid
CancelStep(sid) ==
  /\ sid \in 1..Len(sales)
  /\ sales[sid].status = "completed"
  /\ sales'[sid].status = "cancelled"

\* C14: the step that cancels a completed sale gives back to every product
\* what the lines of the sale drew from it: the quantity of a simple or parent
\* line to the product itself, the consumed parent units of a child line to
\* the parent, and nothing to the child.
C14_CancelRestoresSource ==
  [][\A sid \in 1..MaxSales :
       CancelStep(sid) =>
         \A p \in Products :
           (stock'[p] - stock[p]) * UnitQuantity(p) = Drawn(sales[sid].items, p)]_vars

\* worker wk takes a cancel request for sale sid
CancelRequest(wk, sid) ==
  /\ rw[wk].kind = "idle"
  /\ rw'[wk].kind = "cancel" /\ rw'[wk].sid = sid

\* C15: a cancel request for a sale that is already cancelled is answered
\* with an error, and the step leaves the stock, the ledgers, the register,
\* the batches and the sales as they are.
C15_SecondCancelRejected ==
  [][\A wk \in Workers, sid \in 1..MaxSales :
       (CancelRequest(wk, sid) /\ sid <= Len(sales) /\ sales[sid].status = "cancelled")
         => /\ rw'[wk].pc = "done" /\ rw'[wk].err = "AlreadyCancelled"
            /\ UNCHANGED RetailTables
            /\ UNCHANGED pvars]_vars

\* C15 witness: a second cancel request has been refused
C15_Witness ==
  \E wk \in Workers :
    /\ rw[wk].kind = "cancel" /\ rw[wk].pc = "done"
    /\ rw[wk].err = "AlreadyCancelled"
    /\ sales[rw[wk].sid].status = "cancelled"

\* C16: a sale becomes cancelled only from completed and only by a cancel
\* request that carries a non-empty reason, and a cancelled sale stays
\* cancelled.
C16_CancelOnlyWithReason ==
  [][\A sid \in 1..Len(sales) :
       /\ sales[sid].status = "cancelled" => sales'[sid].status = "cancelled"
       /\ (sales[sid].status # "cancelled" /\ sales'[sid].status = "cancelled")
            => /\ sales[sid].status = "completed"
               /\ \E wk \in Workers : /\ rw[wk].kind = "cancel"
                                       /\ rw[wk].sid = sid
                                       /\ rw[wk].reason # ""]_vars

\* C17: for every completed retail sale the stored amounts satisfy
\* total = subtotal - discount_amount + tax_amount.
C17_TotalIdentity ==
  \A sid \in 1..Len(sales) :
    sales[sid].status = "completed"
      => sales[sid].total
           = sales[sid].subtotal - sales[sid].discount_amount + sales[sid].tax_amount

\* worker wk answers a sale request whose payment is below the total
PaymentRejectStep(wk) ==
  /\ rw[wk].kind = "sale" /\ rw[wk].pc = "validate"
  /\ rw'[wk].pc = "done" /\ rw'[wk].err = "AmountPaidTooLow"

\* C18: every retail sale that is stored has amount_paid >= total and
\* change_amount = amount_paid - total, and the step that rejects a request
\* for its payment leaves the sales and every other table as they are.
C18_PaymentCoversTotal ==
  [][/\ \A sid \in 1..Len(sales') :
          /\ sales'[sid].amount_paid >= sales'[sid].total
          /\ sales'[sid].change_amount = sales'[sid].amount_paid - sales'[sid].total
     /\ \A wk \in Workers : PaymentRejectStep(wk) => UNCHANGED RetailTables]_vars

\* C18 witness: a sale paid with more than its total is stored with its
\* change
C18_Witness ==
  /\ Len(sales) = 1
  /\ sales[1].status = "completed"
  /\ sales[1].amount_paid > sales[1].total
  /\ sales[1].change_amount = sales[1].amount_paid - sales[1].total
  /\ sales[1].change_amount > 0

\* the register entries that a step appends
NewEntries == (Len(register) + 1)..Len(register')

\* C19: a step that changes the quantity of a batch of a controlled
\* medicine appends exactly one register entry for that batch, and no step
\* changes or removes an entry that is in the register.
C19_ControlledChangeWritesRegister ==
  [][/\ Len(register') >= Len(register)
     /\ \A k \in 1..Len(register) : register'[k] = register[k]
     /\ \A b \in BatchIds :
          (is_controlled_drug(BatchMedicine(b)) /\ batch'[b].quantity # batch[b].quantity)
            => Cardinality({k \in NewEntries : register'[k].batch = b}) = 1]_vars

\* the quantity of a register entry with the sign of its movement
SignedQuantity(e) ==
  IF e.transaction_type = "dispensing" THEN -e.quantity ELSE e.quantity

\* C20: the balance of a register entry is the stored quantity of its batch
\* after the step that appends it, and it differs from the balance of the
\* previous entry of the same batch by the signed quantity of the entry.
C20_RegisterBalance ==
  [][\A k \in NewEntries :
       LET e == register'[k]
       IN  /\ e.balance = batch'[e.batch].quantity
           /\ \A j \in 1..(k - 1) :
                (/\ register'[j].batch = e.batch
                 /\ \A i \in (j + 1)..(k - 1) : register'[i].batch # e.batch)
                  => e.balance = register'[j].balance + SignedQuantity(e)]_vars

\* C21: a step that writes a batch leaves it blocked when its expiry date
\* has passed, whatever the request asked for.
C21_ExpiredBatchSavedBlocked ==
  [][\A b \in BatchIds :
       (batch'[b] # batch[b] /\ today' >= batch'[b].expiry_date)
         => batch'[b].is_blocked]_vars

\* C21 witness: an update that asked for is_blocked = false has been saved
\* on an expired batch, and the batch is blocked
C21_Witness ==
  \E wk \in Workers :
    /\ w[wk].kind = "update" /\ w[wk].pc = "done"
    /\ ~w[wk].is_blocked
    /\ is_expired(batch[w[wk].b])
    /\ batch[w[wk].b].is_blocked

\* the request of worker wk is answered in this step with one of the errors
RefusedStep(wk, kind, errors) ==
  /\ w[wk].kind = "idle"
  /\ w'[wk].kind = kind /\ w'[wk].pc = "done"
  /\ w'[wk].err \in errors

\* the request of worker wk passes its check in this step
AdmittedStep(wk, kind) ==
  /\ w[wk].kind = "idle"
  /\ w'[wk].kind = kind /\ w'[wk].pc = "apply"

\* C24: an unblock of an expired batch, a write-off of an empty batch and a
\* write-off of a batch that is not expired are refused with an error and
\* change neither the batches nor the ledger; a request that passes the
\* check is none of these.
C24_InvalidStateRefused ==
  [][\A wk \in Workers :
       /\ (\/ RefusedStep(wk, "unblock", {"ExpiredBatch"})
           \/ RefusedStep(wk, "writeoff", {"NotExpired", "ZeroQuantity"}))
            => UNCHANGED <<batch, movements, register>>
       /\ AdmittedStep(wk, "unblock") => ~is_expired(batch[w'[wk].b])
       /\ AdmittedStep(wk, "writeoff")
            => (is_expired(batch[w'[wk].b]) /\ batch[w'[wk].b].quantity # 0)]_vars

\* C24 witness: a write-off of an expired batch that holds nothing has been
\* refused
C24_Witness ==
  \E wk \in Workers :
    /\ w[wk].kind = "writeoff" /\ w[wk].pc = "done"
    /\ w[wk].err = "ZeroQuantity"
    /\ is_expired(batch[w[wk].b])
    /\ batch[w[wk].b].quantity = 0

\* the status of a batch by the order of priority: expired, blocked,
\* near_expiry, depleted, available
StatusByPriority(o) ==
  IF today >= o.expiry_date THEN "expired"
  ELSE IF o.is_blocked THEN "blocked"
  ELSE IF 0 < o.expiry_date - today /\ o.expiry_date - today <= 90 THEN "near_expiry"
  ELSE IF o.quantity = 0 THEN "depleted"
  ELSE "available"

\* C25: reading the status of a batch yields the first that applies of
\* expired, blocked, near_expiry (at most 90 days left), depleted, available.
C25_StatusByPriority ==
  [][\A wk \in Workers :
       (w[wk].kind = "idle" /\ w'[wk].kind = "status")
         => w'[wk].status = StatusByPriority(batch[w'[wk].b])]_vars

\* C22: a product that a sale item refers to is not hard-deleted by any
\* step, and its sale items and ledger rows remain.
C22_SoldProductNeverDeleted ==
  [][\A pr \in Products :
       (catalog[pr] # "deleted" /\ SaleItemsOf(pr) # {})
         => /\ catalog'[pr] # "deleted"
            /\ SaleItemsOf(pr) \subseteq SaleItemsOf(pr)'
            /\ StockMovementsOf(pr) \subseteq StockMovementsOf(pr)']_vars

\* worker wk writes an adjustment in this step
AdjustStep(wk) ==
  /\ rw[wk].pc = "adjust"
  /\ rw'[wk].pc = "done" /\ rw'[wk].err = ""

\* the stock an adjustment of kind by q leaves, from the stock it is applied to
Adjusted(kind, previous, q) ==
  IF kind = "add" THEN previous + q * Milli
  ELSE IF kind = "remove" THEN previous - q * Milli
  ELSE q * Milli

\* C23: an adjustment that is written sets the stock to the stock it finds
\* plus q, minus q, or q, never below 0, and adds one adjustment row that
\* holds the signed change.
C23_AdjustmentApplied ==
  [][\A wk \in Workers :
       AdjustStep(wk)
         => LET pr == rw[wk].p
            IN  /\ stock'[pr] = Adjusted(rw[wk].kind, stock[pr], rw[wk].q)
                /\ stock'[pr] >= 0
                /\ Len(smovements') = Len(smovements) + 1
                /\ smovements'[Len(smovements')].movement_type = "adjustment"
                /\ smovements'[Len(smovements')].quantity * Milli
                     = stock'[pr] - stock[pr]]_vars

\* every line of the items is a line of a child product
ChildLines(items) ==
  \A k \in 1..Len(items) : ProductType(items[k].product_id) = "child"

\* no sale, stored or in progress, has a line of another product than a child
OnlyChildSales ==
  /\ \A k \in 1..Len(sales) : ChildLines(sales[k].items)
  /\ \A wk \in Workers : ChildLines(rw[wk].items)

\* C26: sales of children of one parent are serialized on the parent's
\* stock: a sale of one line of a child commits only if the parent's stock
\* as it is at the commit covers the line, and leaves that stock less the
\* parent units the line consumes.
C26_ChildSalesSerialized ==
  [][\A wk \in Workers :
       (CommitStep(wk) /\ OnlyChildSales /\ Len(rw[wk].items) = 1)
         => LET c == rw[wk].items[1].product_id
                q == rw[wk].items[1].quantity
                par == ParentOf(c)
            IN  /\ stock[par] * UnitQuantity(par) >= ParentUnitsConsumed(c, q) * Milli
                /\ stock'[par] = DecimalSave(NewParentStock(c, stock[par], q),
                                             UnitQuantity(par))]_vars

\* the lines of the items that draw on the stock of product p
LinesOn(items, p) ==
  {k \in 1..Len(items) : StockSubject(items[k].product_id) = p}

\* C27: a sale with two or more lines that draw on the stock of one product
\* commits only if that stock covers the sum of the lines, and leaves it
\* less exactly that sum and not negative.
C27_LinesSummedPerSubject ==
  [][\A wk \in Workers :
       CommitStep(wk) =>
         \A p \in Products :
           Cardinality(LinesOn(rw[wk].items, p)) >= 2
             => /\ Drawn(rw[wk].items, p) <= stock[p] * UnitQuantity(p)
                /\ stock'[p] * UnitQuantity(p)
                     = stock[p] * UnitQuantity(p) - Drawn(rw[wk].items, p)
                /\ stock'[p] >= 0]_vars

\* worker wk restores the stock of a sale and answers with success
CancelApplyStep(wk) ==
  /\ rw[wk].kind = "cancel" /\ rw[wk].pc = "cancel"
  /\ rw'[wk].pc = "done" /\ rw'[wk].err = ""

\* C28: of the cancel requests for one sale at most one restores the stock
\* and succeeds: the request that does finds the sale completed, and it
\* writes one reversing ledger row for every line.
C28_CancelRestoresOnce ==
  [][\A wk \in Workers :
       CancelApplyStep(wk)
         => /\ sales[rw[wk].sid].status = "completed"
            /\ Len(smovements') = Len(smovements) + Len(sales[rw[wk].sid].items)]_vars

\* the sum of the signed quantities of the rows of batch b among rows
RECURSIVE RowSum(_, _)
RowSum(rows, b) ==
  IF rows = <<>> THEN 0
  ELSE (IF Head(rows).batch = b THEN Head(rows).quantity ELSE 0) + RowSum(Tail(rows), b)

\* the movement rows a step appends
NewMovements == SubSeq(movements', Len(movements) + 1, Len(movements'))

\* C29: the quantity of a batch moves with its ledger: every step changes
\* the quantity of every batch by the sum of the signed quantities of the
\* movement rows it appends for the batch, and the previous_quantity of an
\* appended row is the new_quantity of the row of the batch before it.
C29_QuantityIsLedgerSum ==
  [][/\ \A b \in BatchIds :
          batch'[b].quantity - batch[b].quantity = RowSum(NewMovements, b)
     /\ \A k \in (Len(movements) + 1)..Len(movements') :
          \A j \in 1..(k - 1) :
            (/\ movements'[j].batch = movements'[k].batch
             /\ \A i \in (j + 1)..(k - 1) : movements'[i].batch # movements'[k].batch)
              => movements'[k].previous_quantity = movements'[j].new_quantity]_vars

\* worker wk adds the items of the purchase order to the stock
ReceiveStep(wk) ==
  /\ rw[wk].kind = "receive" /\ rw[wk].pc = "apply"
  /\ rw'[wk].pc = "done"

\* C30: a purchase order that is received or cancelled stays so, and the
\* ordered quantities are added to the stock only while the order is
\* neither: a received order is not received again, a cancelled order never.
C30_OrderReceivedAtMostOnce ==
  [][/\ po.status \in {"received", "cancelled"} => po'.status = po.status
     /\ \A wk \in Workers :
          ReceiveStep(wk) => po.status \notin {"received", "cancelled"}]_vars

====
